---- MODULE Spec2Model ----
(***************************************************************************)
(* A model of simpledb: the byte codec (bytes.rs), the write-ahead log     *)
(* (log.rs) and the storage engine with its commit protocol and recovery   *)
(* (db.rs).  Files hold byte sequences; the byte layouts are the ones the  *)
(* code writes and reads.                                                  *)
(***************************************************************************)
EXTENDS Integers, Sequences, FiniteSets, TLC

(***************************************************************************)
(* Bounds of the model.                                                    *)
(***************************************************************************)
\* Longest sequence of operations appended to the in-memory log of SpecLog.
MaxLogOps == 2
\* Number of put/delete calls made on an engine between two of: open
\* returning it, a commit beginning.
MaxCalls == 2
\* Highest version a commit may start from in Spec.
MaxVersion == 2
\* Number of threads sharing the engine (those test_concurrent_write spawns).
NThreads == 2

(***************************************************************************)
(* bytes.rs                                                                *)
(***************************************************************************)
U64_BYTES_LEN == 8

\* A decoded length no stream of the model can satisfy: stands for every
\* u64 whose upper five bytes are not all zero.
TooLong == 16777216

\* Byte k (0 = least significant) of n.
RECURSIVE ByteOf(_, _)
ByteOf(n, k) == IF k = 0 THEN n % 256 ELSE ByteOf(n \div 256, k - 1)

\* (n as u64).to_be_bytes()
encode_be_u64(n) == [i \in 1..U64_BYTES_LEN |-> ByteOf(n, U64_BYTES_LEN - i)]

\* u64::from_be_bytes(len_buf)
from_be_bytes(b) ==
  IF \E i \in 1..5 : b[i] # 0 THEN TooLong
  ELSE b[6] * 65536 + b[7] * 256 + b[8]

write_encoded_char_to_buffer(c) == encode_be_u64(1) \o <<c>>

\* A length written least significant byte first.
write_encoded_bytes_le(bytes) ==
  [i \in 1..U64_BYTES_LEN |-> ByteOf(Len(bytes), i - 1)] \o bytes

write_encoded_bytes_to_buffer(bytes) == encode_be_u64(Len(bytes)) \o bytes

\* A reader is a byte sequence and a position (bytes consumed so far).
\* read_exact(n): the next n bytes, or failure when fewer remain.
ReadExactOk(data, pos, n) == pos + n <= Len(data)
ReadExact(data, pos, n) == SubSeq(data, pos + 1, pos + n)

(***************************************************************************)
(* log.rs                                                                  *)
(***************************************************************************)
TagPut == 112
TagDelete == 100

Put(k, v) == [tag |-> "Put", key |-> k, value |-> v]
Delete(k) == [tag |-> "Delete", key |-> k]

\* The bytes Log::append builds for one operation.
EncodeOp(op) ==
  IF op.tag = "Put"
  THEN write_encoded_char_to_buffer(TagPut)
         \o write_encoded_bytes_to_buffer(op.key)
         \o write_encoded_bytes_to_buffer(op.value)
  ELSE write_encoded_char_to_buffer(TagDelete)
         \o write_encoded_bytes_to_buffer(op.key)

\* Log::append on a writable stream: seek(End(0)), then write_all.
append(data, op) == data \o EncodeOp(op)

\* read_instruction_from_log: read_u64_from_log then read_bytes_from_log;
\* either read failing is a panic.
read_instruction_from_log(data, pos) ==
  IF ~ReadExactOk(data, pos, U64_BYTES_LEN)
  THEN [panic |-> TRUE, bytes |-> <<>>, pos |-> pos]
  ELSE LET n == from_be_bytes(ReadExact(data, pos, U64_BYTES_LEN))
           p == pos + U64_BYTES_LEN
       IN  IF ~ReadExactOk(data, p, n)
           THEN [panic |-> TRUE, bytes |-> <<>>, pos |-> p]
           ELSE [panic |-> FALSE, bytes |-> ReadExact(data, p, n), pos |-> p + n]

\* read_operation_from_log: kind is "ok", "end" (EndReached), "invalid"
\* (InvalidOperation) or "panic".
read_operation_from_log(data, pos) ==
  IF ~ReadExactOk(data, pos, U64_BYTES_LEN + 1)
  THEN [kind |-> "end", op |-> Delete(<<>>), pos |-> pos]
  ELSE LET tag == data[pos + U64_BYTES_LEN + 1]
           p0  == pos + U64_BYTES_LEN + 1
       IN  IF tag = TagPut
           THEN LET k == read_instruction_from_log(data, p0)
                IN  IF k.panic
                    THEN [kind |-> "panic", op |-> Delete(<<>>), pos |-> p0]
                    ELSE LET v == read_instruction_from_log(data, k.pos)
                         IN  IF v.panic
                             THEN [kind |-> "panic", op |-> Delete(<<>>), pos |-> k.pos]
                             ELSE [kind |-> "ok", op |-> Put(k.bytes, v.bytes),
                                   pos |-> v.pos]
           ELSE IF tag = TagDelete
           THEN LET k == read_instruction_from_log(data, p0)
                IN  IF k.panic
                    THEN [kind |-> "panic", op |-> Delete(<<>>), pos |-> p0]
                    ELSE [kind |-> "ok", op |-> Delete(k.bytes), pos |-> k.pos]
           ELSE [kind |-> "invalid", op |-> Delete(<<>>), pos |-> p0]

\* The loop of read_until_empty from position pos: every Err of
\* read_operation_from_log ends the loop; a panic leaves no result.
RECURSIVE ReadLoop(_, _)
ReadLoop(data, pos) ==
  LET r == read_operation_from_log(data, pos)
  IN  IF r.kind = "ok"
      THEN LET rest == ReadLoop(data, r.pos)
           IN  [panic |-> rest.panic, ops |-> <<r.op>> \o rest.ops]
      ELSE [panic |-> r.kind = "panic", ops |-> <<>>]

\* read_until_empty: rewind, then the loop.
read_until_empty(data) == ReadLoop(data, 0)

(***************************************************************************)
(* db.rs: pure helpers                                                     *)
(***************************************************************************)
\* A file that does not exist (no byte is negative).
Absent == <<-1>>

\* format!("{}", version): decimal digits, ASCII.
RECURSIVE FormatU64(_)
FormatU64(n) ==
  IF n < 10 THEN <<48 + n>> ELSE FormatU64(n \div 10) \o <<48 + (n % 10)>>

\* str::parse::<u64>: -1 stands for Err (empty text, or a byte that is no digit).
RECURSIVE ParseDigits(_, _)
ParseDigits(s, acc) ==
  IF s = <<>> THEN acc
  ELSE IF Head(s) < 48 \/ Head(s) > 57 THEN -1
  ELSE ParseDigits(Tail(s), acc * 10 + (Head(s) - 48))

ParseU64(s) == IF s = <<>> THEN -1 ELSE ParseDigits(s, 0)

\* HashMap<Vec<u8>, Vec<u8>> as a function from a finite set of keys.
EmptyMap == [k \in {} |-> <<>>]
Insert(m, k, v) == [x \in DOMAIN m \cup {k} |-> IF x = k THEN v ELSE m[x]]
Remove(m, k) == [x \in DOMAIN m \ {k} |-> m[x]]
\* SimpleDB::get: Option<Vec<u8>> as a sequence of at most one value.
get(m, k) == IF k \in DOMAIN m THEN <<m[k]>> ELSE <<>>

\* The loop of try_load_from_existing that applies the replayed operations.
ApplyOp(m, op) == IF op.tag = "Put" THEN Insert(m, op.key, op.value) ELSE Remove(m, op.key)

RECURSIVE ApplyOps(_, _)
ApplyOps(m, ops) == IF ops = <<>> THEN m ELSE ApplyOps(ApplyOp(m, Head(ops)), Tail(ops))

\* The orders in which HashMap::iter may visit the keys of a map.
Orders(S) ==
  {o \in [1..Cardinality(S) -> S] : \A i, j \in 1..Cardinality(S) : o[i] = o[j] => i = j}

\* A buffer with each value written before its key.
RECURSIVE EncodeRecordsValueFirst(_, _)
EncodeRecordsValueFirst(m, o) ==
  IF o = <<>> THEN <<>>
  ELSE write_encoded_bytes_to_buffer(m[Head(o)])
         \o write_encoded_bytes_to_buffer(Head(o))
         \o EncodeRecordsValueFirst(m, Tail(o))

\* The buffer write_records_to_file builds, visiting the keys in order o.
RECURSIVE EncodeRecords(_, _)
EncodeRecords(m, o) ==
  IF o = <<>> THEN <<>>
  ELSE write_encoded_bytes_to_buffer(Head(o))
         \o write_encoded_bytes_to_buffer(m[Head(o)])
         \o EncodeRecords(m, Tail(o))

\* read_records_from_file: kind is "ok", "err" (read_bytes_from_log failed)
\* or "panic" (read_u64_from_log failed).
RECURSIVE ReadRecords(_, _, _)
ReadRecords(data, pos, m) ==
  IF pos >= Len(data) THEN [kind |-> "ok", records |-> m]
  ELSE IF ~ReadExactOk(data, pos, U64_BYTES_LEN) THEN [kind |-> "panic", records |-> m]
  ELSE LET kl == from_be_bytes(ReadExact(data, pos, U64_BYTES_LEN))
           p1 == pos + U64_BYTES_LEN
       IN  IF ~ReadExactOk(data, p1, kl) THEN [kind |-> "err", records |-> m]
           ELSE IF ~ReadExactOk(data, p1 + kl, U64_BYTES_LEN)
           THEN [kind |-> "panic", records |-> m]
           ELSE LET vl == from_be_bytes(ReadExact(data, p1 + kl, U64_BYTES_LEN))
                    p2 == p1 + kl + U64_BYTES_LEN
                IN  IF ~ReadExactOk(data, p2, vl) THEN [kind |-> "err", records |-> m]
                    ELSE ReadRecords(data, p2 + vl,
                                     Insert(m, ReadExact(data, p1, kl), ReadExact(data, p2, vl)))

read_records_from_file(data) == ReadRecords(data, 0, EmptyMap)

(***************************************************************************)
(* State                                                                   *)
(***************************************************************************)
VARIABLES
  \* Log<Cursor<Vec<u8>>> of log.rs's test: the bytes of the cursor, with
  \* the operations appended so far and the result of the last replay;
  \* what was put after the appended entries: nothing ("none"), the first
  \* bytes of one more entry ("torn"), an entry with a tag that is no
  \* operation ("badtag").
  stream, appended, replayed, damage,
  \* A record set, the checkpoint file written from it and what reading
  \* that file back gave: stage is "build", "written" or "read".
  ckpt,
  \* The store directory: dir (it exists), version and new_version (the
  \* markers), checkpoint[n] and logfile[n]; a file is its bytes, or Absent.
  disk,
  \* The SimpleDB value of the running process, if it has one.
  db,
  \* Where the process is in SimpleDB::open, and the locals of open.
  boot, ld,
  \* Where each thread is in its call on the shared engine, and who holds
  \* the Mutex around it.
  tpc, mutex,
  \* History: the map that the operations that returned Ok build from the
  \* empty map, the number of put/delete calls since open returned or a
  \* commit began, the last call that returned
  \* and the engine and disk as they were when it began (both forgotten when
  \* the caller lets go of the engine), this session (since open returned),
  \* the session before it (forgotten at the first call after open), the
  \* version the engine last showed.
  acked, calls, last, snap, sess, prev, vlast,
  \* The key of the put that each thread last made on this engine and that
  \* has returned, as a sequence of at most one key.
  wrote

logVars == <<stream, appended, replayed, damage, ckpt>>
dbVars ==
  <<disk, db, boot, ld, tpc, mutex, acked, calls, last, snap, sess, prev, vlast, wrote>>
vars == <<stream, appended, replayed, damage, ckpt, disk, db, boot, ld, tpc, mutex,
          acked, calls, last, snap, sess, prev, vlast, wrote>>

Threads == 1..NThreads
Versions == 0..MaxVersion

\* Keys and values of the engine's callers ("a", "b"; "x", the empty value).
Keys == {<<97>>, <<98>>}
Values == {<<120>>, <<>>}

\* Keys and values appended to the cursor log: the empty one, one that is a
\* tag byte, one that starts with the other tag byte.
LogKeys == {<<>>, <<112>>, <<100, 0>>}
LogValues == {<<>>, <<97, 98>>}
LogOps == {Put(k, v) : k \in LogKeys, v \in LogValues} \cup {Delete(k) : k \in LogKeys}

(***************************************************************************)
(* Initial state: no store directory, no process.                          *)
(***************************************************************************)
NoEngine ==
  [open |-> FALSE, records |-> EmptyMap, log |-> [ver |-> 0, writable |-> FALSE],
   version |-> 0, commit_in_progress |-> FALSE]

NoDisk ==
  [dir |-> FALSE, version |-> Absent, new_version |-> Absent,
   checkpoint |-> [n \in Versions |-> Absent], logfile |-> [n \in Versions |-> Absent]]

NoCall == [op |-> "none", key |-> <<>>, value |-> <<>>, result |-> "none"]

NoSnap == [db |-> NoEngine, disk |-> NoDisk]

\* A session: n is 0 for no session, 1 for the session of the open that
\* created the store, 2 for a later one; verAtOpen the version open returned;
\* committed: commit was called; issued the map the session's put and delete
\* calls build on the record set open returned (kept until commit is called);
\* cOk: the last call was a commit that returned Ok, from version cVer with
\* the record set cRecs.
NoSession ==
  [n |-> 0, verAtOpen |-> 0, issued |-> EmptyMap,
   committed |-> FALSE, cOk |-> FALSE, cRecs |-> EmptyMap, cVer |-> 0]

NoReplay == [done |-> FALSE, panic |-> FALSE, ops |-> <<>>, of |-> <<>>,
             again |-> FALSE, before |-> <<>>, result |-> "none", damage |-> "none"]

NoCheckpoint ==
  [stage |-> "build", records |-> EmptyMap, file |-> <<>>,
   loaded |-> [kind |-> "none", records |-> EmptyMap]]

InitLogVars ==
  /\ stream = <<>>
  /\ appended = <<>>
  /\ replayed = NoReplay
  /\ damage = "none"
  /\ ckpt = NoCheckpoint

InitDbVars ==
  /\ disk = NoDisk
  /\ db = NoEngine
  /\ boot = "down"
  /\ ld = 0
  /\ tpc = [t \in Threads |-> "idle"]
  /\ mutex = 0
  /\ acked = EmptyMap
  /\ calls = 0
  /\ last = NoCall
  /\ snap = NoSnap
  /\ sess = NoSession
  /\ prev = NoSession
  /\ vlast = 0
  /\ wrote = [t \in Threads |-> <<>>]

Init == InitLogVars /\ InitDbVars

(***************************************************************************)
(* SimpleDB::open                                                          *)
(***************************************************************************)
\* Log::open: File::open opens the file read-only.
LogOpen(ver) == [ver |-> ver, writable |-> FALSE]

\* An engine that starts at version 0 whatever the store holds.
EngineAtZero(records, ver) ==
  [open |-> TRUE, records |-> records, log |-> LogOpen(0), version |-> 0,
   commit_in_progress |-> FALSE]

\* The SimpleDB value that open and try_load_from_existing return.
Engine(records, ver) ==
  [open |-> TRUE, records |-> records, log |-> LogOpen(ver), version |-> ver,
   commit_in_progress |-> FALSE]

\* The version the engine shows, kept while no engine is open.
Seen == vlast' = IF db'.open THEN db'.version ELSE vlast

\* The process ends (a crash, or a panic nobody catches): its engine, its
\* threads and their locks are gone; the disk stays.
Die ==
  /\ db' = NoEngine
  /\ boot' = "down"
  /\ ld' = 0
  /\ tpc' = [t \in Threads |-> "idle"]
  /\ mutex' = 0
  /\ calls' = 0
  /\ wrote' = [t \in Threads |-> <<>>]

Crash ==
  /\ boot # "down"
  /\ Die
  /\ last' = NoCall
  /\ snap' = NoSnap
  /\ prev' = NoSession
  /\ UNCHANGED <<disk, acked, sess>>
  /\ UNCHANGED logVars
  /\ Seen

OpenCall(result) == [op |-> "open", key |-> <<>>, value |-> <<>>, result |-> result]

\* open returns Err, or panics: the caller has no engine.
OpenFails(result) ==
  /\ Die
  /\ last' = OpenCall(result)
  /\ UNCHANGED <<disk, acked, snap, sess, prev>>
  /\ UNCHANGED logVars
  /\ Seen

\* open returns an engine.
OpenReturns(records, ver) ==
  /\ db' = Engine(records, ver)
  /\ boot' = "up"
  /\ ld' = 0
  /\ last' = OpenCall("ok")
  /\ prev' = sess
  /\ sess' = [NoSession EXCEPT !.n = IF sess.n = 0 THEN 1 ELSE 2,
                               !.issued = records, !.verAtOpen = ver]
  /\ UNCHANGED <<disk, tpc, mutex, acked, calls, snap, wrote>>
  /\ UNCHANGED logVars
  /\ Seen

\* A step of open that only writes the disk and moves on.
OpenStep(to, newDisk) ==
  /\ disk' = newDisk
  /\ boot' = to
  /\ UNCHANGED <<db, ld, tpc, mutex, acked, calls, last, snap, sess, prev, wrote>>
  /\ UNCHANGED logVars
  /\ Seen

\* open on a path that does not exist: create_dir.
OpenCreateDir ==
  /\ boot = "down" /\ ~disk.dir
  /\ OpenStep("create_version", [disk EXCEPT !.dir = TRUE])

\* create_version_file(path, 0, false): File::create.
OpenCreateVersion ==
  /\ boot = "create_version"
  /\ OpenStep("write_version", [disk EXCEPT !.version = <<>>])

\* create_version_file(path, 0, false): write_all.
OpenWriteVersion ==
  /\ boot = "write_version"
  /\ OpenStep("create_checkpoint", [disk EXCEPT !.version = FormatU64(0)])

\* create_db_file(path, 0, CHECKPOINT_FILE_NAME)
OpenCreateCheckpoint ==
  /\ boot = "create_checkpoint"
  /\ OpenStep("create_log", [disk EXCEPT !.checkpoint[0] = <<>>])

\* open going on to Log::open with no log file created.
OpenSkipLog ==
  /\ boot = "create_log"
  /\ OpenStep("open_log", disk)

\* create_db_file(path, 0, LOG_FILE_NAME)
OpenCreateLog ==
  /\ boot = "create_log"
  /\ OpenStep("open_log", [disk EXCEPT !.logfile[0] = <<>>])

\* Log::open and the Ok(SimpleDB {..}) of open.
OpenFinish ==
  /\ boot = "open_log"
  /\ OpenReturns(EmptyMap, 0)

\* try_load_from_existing: which marker names the version.
LoadReadMarker ==
  /\ boot = "down" /\ disk.dir
  /\ LET pending == disk.new_version # Absent
         text == IF pending THEN disk.new_version ELSE disk.version
         v == ParseU64(text)
     IN  IF text = Absent THEN OpenFails("err")
         ELSE IF v = -1 THEN OpenFails("panic")
         ELSE /\ boot' = IF pending THEN "remove_new_version" ELSE "load"
              /\ ld' = v
              /\ UNCHANGED <<disk, db, tpc, mutex, acked, calls, last, snap, sess, prev, wrote>>
              /\ UNCHANGED logVars
              /\ Seen

\* try_load_from_existing: remove_file(new_version_file_path).
LoadRemoveNewVersion ==
  /\ boot = "remove_new_version"
  /\ disk' = [disk EXCEPT !.new_version = Absent]
  /\ boot' = "load"
  /\ UNCHANGED <<db, ld, tpc, mutex, acked, calls, last, snap, sess, prev, wrote>>
  /\ UNCHANGED logVars
  /\ Seen

\* try_load_from_existing: the checkpoint, the log and its replay.
LoadFiles ==
  /\ boot = "load"
  /\ LET ck == disk.checkpoint[ld]
         lg == disk.logfile[ld]
         r == read_records_from_file(ck)
         ops == read_until_empty(lg)
     IN  IF ck = Absent THEN OpenFails("err")
         ELSE IF r.kind # "ok" THEN OpenFails(r.kind)
         ELSE IF lg = Absent THEN OpenFails("err")
         ELSE IF ops.panic THEN OpenFails("panic")
         ELSE OpenReturns(ApplyOps(r.records, ops.ops), ld)

(***************************************************************************)
(* Calls on the shared engine                                              *)
(***************************************************************************)
\* Mutex::lock of the callers (put, delete and commit take &mut self).
LockFree == mutex = 0

Lock(t) ==
  /\ boot = "up" /\ tpc[t] = "idle"
  /\ LockFree
  /\ mutex' = t
  /\ tpc' = [tpc EXCEPT ![t] = "locked"]
  /\ prev' = NoSession
  /\ UNCHANGED <<disk, db, boot, ld, acked, calls, last, snap, sess, wrote>>
  /\ UNCHANGED logVars
  /\ Seen

Unlock(t) ==
  /\ boot = "up" /\ tpc[t] = "locked"
  /\ mutex' = 0
  /\ tpc' = [tpc EXCEPT ![t] = "idle"]
  /\ last' = NoCall
  /\ snap' = NoSnap
  /\ UNCHANGED <<disk, db, boot, ld, acked, calls, sess, prev, wrote>>
  /\ UNCHANGED logVars
  /\ Seen

\* Log::append_to_disk on the engine's log: write_all fails on a file that
\* was not opened for writing; a write to a file since removed reaches no
\* file of the directory.
AppendFails == ~db.log.writable
AppendToDisk(op) ==
  IF disk.logfile[db.log.ver] = Absent THEN disk
  ELSE [disk EXCEPT !.logfile[db.log.ver] = append(@, op)]

\* get_write_records: the lock is refused while a commit is in progress.
WriteRefused == db.commit_in_progress

\* A record set changed by op whatever became of the call.
ApplyAlways(result, op) == [db EXCEPT !.records = ApplyOp(@, op)]

\* (*records).insert / (*records).remove: reached only when append_to_disk
\* and get_write_records both returned Ok.
ApplyAfterAppend(result, op) ==
  IF result = "ok" THEN [db EXCEPT !.records = ApplyOp(@, op)] ELSE db

\* put and delete, each one step of the thread that holds the engine.
Mutate(t, op, name) ==
  /\ boot = "up" /\ tpc[t] = "locked"
  /\ calls < MaxCalls
  /\ calls' = calls + 1
  /\ snap' = [db |-> db, disk |-> disk]
  /\ sess' = [sess EXCEPT !.issued = ApplyOp(@, op), !.cOk = FALSE]
  /\ LET result == IF AppendFails THEN "io" ELSE IF WriteRefused THEN "lock" ELSE "ok"
     IN  /\ disk' = IF AppendFails THEN disk ELSE AppendToDisk(op)
         /\ db' = ApplyAfterAppend(result, op)
         /\ acked' = IF result = "ok" THEN ApplyOp(acked, op) ELSE acked
         /\ last' = [op |-> name, key |-> op.key,
                     value |-> IF name = "put" THEN op.value ELSE <<>>,
                     result |-> result]
  /\ wrote' = IF name = "put" THEN [wrote EXCEPT ![t] = <<op.key>>] ELSE wrote
  /\ UNCHANGED <<boot, ld, tpc, mutex, prev>>
  /\ UNCHANGED logVars
  /\ Seen

put(t, k, v) == Mutate(t, Put(k, v), "put")

delete(t, k) == Mutate(t, Delete(k), "delete")

(***************************************************************************)
(* SimpleDB::commit, one action per filesystem step.  A step before the    *)
(* cleanup may fail (the filesystem returns an error), and `?` returns the *)
(* error to the caller.  In the cleanup an error is a panic (`expect`),    *)
(* which ends the process as a crash at that step does; the cleanup's      *)
(* errors modelled are the ones the state of the directory forces.         *)
(***************************************************************************)
CommitCall(result) ==
  [op |-> "commit", key |-> <<>>, value |-> <<>>, result |-> result]

\* A step of commit by the thread at `from`: the disk and the engine after
\* it, and where the thread goes.
CommitStep(t, from, to, newDisk, newDb) ==
  /\ boot = "up" /\ tpc[t] = from
  /\ disk' = newDisk
  /\ db' = newDb
  /\ tpc' = [tpc EXCEPT ![t] = to]
  /\ UNCHANGED <<boot, ld, mutex, acked, calls, last, snap, sess, prev, wrote>>
  /\ UNCHANGED logVars
  /\ Seen

\* commit returns Err(..) from one of its `?`.
CommitErr(t, from) ==
  /\ boot = "up" /\ tpc[t] = from
  /\ tpc' = [tpc EXCEPT ![t] = "locked"]
  /\ last' = CommitCall("err")
  /\ UNCHANGED <<disk, db, boot, ld, mutex, acked, calls, snap, sess, prev, wrote>>
  /\ UNCHANGED logVars
  /\ Seen

\* cleanup_previous_commit_files returned Err: expect panics.
CommitPanic(t, from) ==
  /\ boot = "up" /\ tpc[t] = from
  /\ Die
  /\ last' = CommitCall("panic")
  /\ UNCHANGED <<disk, acked, snap, sess, prev>>
  /\ UNCHANGED logVars
  /\ Seen

\* commit_in_progress = true; new_version = version + 1;
\* create_version_file(path, new_version, true): File::create.
CommitCreateMarker(t) ==
  /\ boot = "up" /\ tpc[t] = "locked"
  /\ db.version < MaxVersion
  /\ snap' = [db |-> db, disk |-> disk]
  /\ sess' = [sess EXCEPT !.committed = TRUE, !.cOk = FALSE, !.issued = EmptyMap]
  /\ calls' = 0
  /\ wrote' = [u \in Threads |-> <<>>]
  /\ db' = [db EXCEPT !.commit_in_progress = TRUE]
  /\ \/ /\ disk' = [disk EXCEPT !.new_version = <<>>]
        /\ tpc' = [tpc EXCEPT ![t] = "write_marker"]
        /\ last' = NoCall
     \/ /\ disk' = disk
        /\ tpc' = tpc
        /\ last' = CommitCall("err")
  /\ UNCHANGED <<boot, ld, mutex, acked, prev>>
  /\ UNCHANGED logVars
  /\ Seen

\* create_version_file(path, new_version, true): write_all.
CommitWriteMarker(t) ==
  \/ CommitStep(t, "write_marker", "create_checkpoint",
                [disk EXCEPT !.new_version = FormatU64(db.version + 1)], db)
  \/ CommitErr(t, "write_marker")

\* create_db_file(path, new_version, CHECKPOINT_FILE_NAME)
CommitCreateCheckpoint(t) ==
  \/ CommitStep(t, "create_checkpoint", "write_checkpoint",
                [disk EXCEPT !.checkpoint[db.version + 1] = <<>>], db)
  \/ CommitErr(t, "create_checkpoint")

\* write_records_to_file: the buffer, write_all, sync_data.
write_records_to_file(o) == EncodeRecords(db.records, o)

CommitWriteCheckpoint(t) ==
  \/ \E o \in Orders(DOMAIN db.records) :
       CommitStep(t, "write_checkpoint", "create_log",
                  [disk EXCEPT !.checkpoint[db.version + 1] = write_records_to_file(o)], db)
  \/ CommitErr(t, "write_checkpoint")

\* create_db_file(path, new_version, LOG_FILE_NAME)
CommitCreateLog(t) ==
  \/ CommitStep(t, "create_log", "open_log",
                [disk EXCEPT !.logfile[db.version + 1] = <<>>], db)
  \/ CommitErr(t, "create_log")

\* commit going on to the cleanup with the old log still the active one.
CommitKeepOldLog(t) ==
  \/ CommitStep(t, "open_log", "remove_log", disk,
                [db EXCEPT !.commit_in_progress = FALSE])
  \/ CommitErr(t, "open_log")

\* Log::open(&log_path); self.log = log; self.commit_in_progress = false.
CommitOpenLog(t) ==
  \/ CommitStep(t, "open_log", "remove_log", disk,
                [db EXCEPT !.log = LogOpen(db.version + 1), !.commit_in_progress = FALSE])
  \/ CommitErr(t, "open_log")

\* cleanup_previous_commit_files: remove_file(logfile.<version>); a file
\* that is not there is Err(NotFound).
CleanupRemoveLog(t) ==
  IF disk.logfile[db.version] # Absent
  THEN CommitStep(t, "remove_log", "remove_checkpoint",
                  [disk EXCEPT !.logfile[db.version] = Absent], db)
  ELSE CommitPanic(t, "remove_log")

\* cleanup_previous_commit_files: remove_file(checkpoint.<version>).
CleanupRemoveCheckpoint(t) ==
  IF disk.checkpoint[db.version] # Absent
  THEN CommitStep(t, "remove_checkpoint", "remove_marker",
                  [disk EXCEPT !.checkpoint[db.version] = Absent], db)
  ELSE CommitPanic(t, "remove_checkpoint")

\* cleanup_previous_commit_files: remove_file(version).
CleanupRemoveMarker(t) ==
  IF disk.version # Absent
  THEN CommitStep(t, "remove_marker", "rename_marker",
                  [disk EXCEPT !.version = Absent], db)
  ELSE CommitPanic(t, "remove_marker")

\* cleanup_previous_commit_files: rename(new_version, version).
CleanupRename(t) ==
  IF disk.new_version # Absent
  THEN CommitStep(t, "rename_marker", "set_version",
                  [disk EXCEPT !.version = disk.new_version, !.new_version = Absent], db)
  ELSE CommitPanic(t, "rename_marker")

\* self.version = new_version; Ok(())
CommitFinish(t) ==
  /\ boot = "up" /\ tpc[t] = "set_version"
  /\ db' = [db EXCEPT !.version = db.version + 1]
  /\ tpc' = [tpc EXCEPT ![t] = "locked"]
  /\ last' = CommitCall("ok")
  /\ sess' = [sess EXCEPT !.cOk = TRUE, !.cRecs = db.records, !.cVer = db.version]
  /\ UNCHANGED <<disk, boot, ld, mutex, acked, calls, snap, prev, wrote>>
  /\ UNCHANGED logVars
  /\ Seen

commit(t) ==
  \/ CommitCreateMarker(t)
  \/ CommitWriteMarker(t)
  \/ CommitCreateCheckpoint(t)
  \/ CommitWriteCheckpoint(t)
  \/ CommitCreateLog(t)
  \/ CommitOpenLog(t)
  \/ CleanupRemoveLog(t)
  \/ CleanupRemoveCheckpoint(t)
  \/ CleanupRemoveMarker(t)
  \/ CleanupRename(t)
  \/ CommitFinish(t)

open ==
  \/ OpenCreateDir
  \/ OpenCreateVersion
  \/ OpenWriteVersion
  \/ OpenCreateCheckpoint
  \/ OpenCreateLog
  \/ OpenFinish
  \/ LoadReadMarker
  \/ LoadRemoveNewVersion
  \/ LoadFiles

Next ==
  \/ open
  \/ Crash
  \/ \E t \in Threads :
       \/ Lock(t)
       \/ Unlock(t)
       \/ \E k \in Keys : \E v \in Values : put(t, k, v)
       \/ \E k \in Keys : delete(t, k)
       \/ commit(t)

Spec == Init /\ [][Next]_vars

(***************************************************************************)
(* Properties of the engine                                                *)
(***************************************************************************)
\* open has just returned an engine, and an earlier session exists.
Reopened == last = OpenCall("ok") /\ prev.n > 0

\* A put or delete has just returned, made while no commit was in progress.
Returned(name) == last.op = name /\ ~snap.db.commit_in_progress

\* C1: whenever open returns an engine, its record set is the map that the
\* put and delete calls that returned Ok before that open build, in issue
\* order, from the empty map.
AckedWritesSurvive == last = OpenCall("ok") => db.records = acked

\* C2: after put and delete calls on an open store and a restart without a
\* commit, the reopened store's record set is what those calls build on the
\* record set the store had when it was opened, and its version is the same.
RestartWithoutCommit ==
  (Reopened /\ ~prev.committed) =>
    (db.records = prev.issued /\ db.version = prev.verAtOpen)

\* C3: a restart after a commit that returned Ok yields the record set that
\* was in memory at the commit, at the version before the commit plus one.
CommitThenRestart ==
  (Reopened /\ prev.cOk) => (db.records = prev.cRecs /\ db.version = prev.cVer + 1)

\* C3's case: the store is reopened after its second commit returned Ok.
CommitThenRestartWitness == Reopened /\ prev.cOk /\ prev.cVer = 1

\* C4: the version is 0 at creation, a commit that returns Ok adds exactly
\* one to it, and what version() shows never decreases over the life of the
\* store, crashes and reopens included.
VersionNeverDecreases ==
  [][/\ (boot # "up" /\ boot' = "up" /\ sess'.n = 1) => db'.version = 0
     /\ (tpc # tpc' /\ last' = CommitCall("ok")) => db'.version = db.version + 1
     /\ db'.open => db'.version >= vlast]_vars

\* C5: commit returns Ok or Err, never leaving its work half done.  After Ok
\* the canonical marker names the version before the call plus one, the
\* pending marker is gone and version() is that version.  After Err the
\* version and the record set are those before the call, the marker, the
\* checkpoint and the log of the old version are as they were.
CommitAllOrNothing ==
  last.op = "commit" =>
    LET v == snap.db.version
    IN  /\ last.result \in {"ok", "err"}
        /\ last.result = "ok" =>
             /\ disk.version = FormatU64(v + 1)
             /\ disk.new_version = Absent
             /\ db.version = v + 1
        /\ last.result = "err" =>
             /\ db.version = v
             /\ db.records = snap.db.records
             /\ disk.version = snap.disk.version
             /\ disk.checkpoint[v] = snap.disk.checkpoint[v]
             /\ disk.logfile[v] = snap.disk.logfile[v]

\* C6: a put or delete made while the commit-in-progress flag is set is
\* refused with the Lock error, and leaves the log and the record set as
\* they were.
WriteRefusedDuringCommit ==
  (last.op \in {"put", "delete"} /\ snap.db.commit_in_progress) =>
    /\ last.result = "lock"
    /\ disk = snap.disk
    /\ db.records = snap.db.records

\* C7: put(key, value) returns Ok and get(key) is then value, the other
\* keys keeping what they had.
PutThenGet ==
  Returned("put") =>
    /\ last.result = "ok"
    /\ get(db.records, last.key) = <<last.value>>
    /\ \A k \in Keys \ {last.key} : get(db.records, k) = get(snap.db.records, k)

\* C8: delete(key) returns Ok, also for a key that is absent, get(key) is
\* then absent, and the other keys keep what they had.
DeleteThenGet ==
  Returned("delete") =>
    /\ last.result = "ok"
    /\ get(db.records, last.key) = <<>>
    /\ \A k \in Keys \ {last.key} : get(db.records, k) = get(snap.db.records, k)

\* C9: at most one thread is inside a call on the engine, and once the
\* threads' puts on keys of their own have all returned, each of the keys is
\* present with the value its thread put.
ConcurrentPuts ==
  /\ Cardinality({t \in Threads : tpc[t] # "idle"}) <= 1
  /\ (/\ db.open
      /\ \A t \in Threads : tpc[t] = "idle" /\ wrote[t] # <<>>
      /\ \A t, u \in Threads : wrote[t] = wrote[u] => t = u
      /\ ~sess.committed)
     => \A t \in Threads : get(db.records, wrote[t][1]) = get(sess.issued, wrote[t][1])


\* An engine is open and no commit call is executing.
AtRest == boot = "up" /\ \A t \in Threads : tpc[t] \in {"idle", "locked"}

\* C13: while an engine is open and no commit is executing, the canonical
\* marker holds the engine's version, there is no pending marker, and the
\* checkpoint and log files that exist are exactly those of that version.
OnlyCurrentArtifacts ==
  AtRest =>
    /\ disk.version = FormatU64(db.version)
    /\ disk.new_version = Absent
    /\ \A n \in Versions :
         /\ (disk.checkpoint[n] # Absent) <=> (n = db.version)
         /\ (disk.logfile[n] # Absent) <=> (n = db.version)

\* C14: when open returns from creating a store on a path where none was,
\* the engine is at version 0 with no records and no commit in progress,
\* checkpoint.0 and logfile.0 exist and are empty, the canonical marker
\* holds "0" (the byte 48), there is no pending marker and no file of
\* another version.
FreshOpen ==
  [][(boot = "open_log" /\ boot' = "up") =>
       /\ db'.open /\ db'.version = 0 /\ db'.records = EmptyMap
       /\ ~db'.commit_in_progress
       /\ disk'.dir
       /\ disk'.checkpoint[0] = <<>>
       /\ disk'.logfile[0] = <<>>
       /\ disk'.version = <<48>>
       /\ disk'.new_version = Absent
       /\ \A n \in Versions \ {0} :
            disk'.checkpoint[n] = Absent /\ disk'.logfile[n] = Absent]_vars

\* C14's case: the first open on the path has returned an engine and
\* nothing has been called on it yet.
FreshOpenWitness ==
  /\ last = OpenCall("ok")
  /\ sess.n = 1 /\ prev.n = 0
  /\ mutex = 0 /\ calls = 0 /\ ~sess.committed

\* The version named by the authoritative marker, the pending one if it
\* exists and the canonical one otherwise; -1 when no marker names one.
MarkedVersion ==
  LET text == IF disk.new_version # Absent THEN disk.new_version ELSE disk.version
  IN  IF text = Absent THEN -1 ELSE ParseU64(text)

\* C16: in every state of a store that an open has once returned, between
\* any two filesystem steps, the checkpoint and the log of the version that
\* the authoritative marker names both exist.
MarkedPairExists ==
  (sess.n > 0 /\ MarkedVersion # -1) =>
    /\ disk.checkpoint[MarkedVersion] # Absent
    /\ disk.logfile[MarkedVersion] # Absent

\* C17: in every state of a store that an open has once returned, the
\* canonical marker exists, alone or together with the pending marker:
\* never the pending marker alone, never no marker.
CanonicalMarkerExists ==
  sess.n > 0 => disk.version # Absent

\* The record set that the checkpoint and the log of version v give.
Durable(v) ==
  ApplyOps(read_records_from_file(disk.checkpoint[v]).records,
           read_until_empty(disk.logfile[v]).ops)

\* C18: a put or delete whose append failed returns the error and leaves
\* the record set and the disk as they were before the call; and the record
\* set of an open engine is always the one that the checkpoint and the log
\* of its active WAL's version give, so it holds no mutation that the WAL
\* lacks.
LogBeforeApply ==
  /\ (last.op \in {"put", "delete"} /\ ~snap.db.log.writable) =>
       /\ last.result = "io"
       /\ db.records = snap.db.records
       /\ disk = snap.disk
  /\ db.open =>
       /\ disk.checkpoint[db.log.ver] # Absent
       /\ disk.logfile[db.log.ver] # Absent
       /\ db.records = Durable(db.log.ver)

\* C18's case: a put whose append failed has returned.
LogBeforeApplyWitness ==
  /\ last.op = "put" /\ last.result = "io"
  /\ ~snap.db.log.writable
  /\ ~snap.db.commit_in_progress

\* The checkpoint of version n holds the record set of the engine, written
\* in some order.
CheckpointWritten(n) ==
  \E o \in Orders(DOMAIN db.records) : disk.checkpoint[n] = EncodeRecords(db.records, o)

\* C19: every step of a running engine that touches the files or the
\* engine keeps the order of the commit protocol, with v the engine's
\* version: checkpoint.(v+1) is created and written only once the pending
\* marker and then its text v+1 are there; logfile.(v+1) is created only on
\* a fully written checkpoint.(v+1); it becomes the active WAL only once it
\* exists; logfile.v, checkpoint.v and the canonical marker are removed, in
\* this order, only after that; the rename of the pending marker comes after
\* the three removals; the version of the engine changes only after the
\* rename, by one, and no file changes after it.
CommitOrder ==
  [][(boot = "up" /\ boot' = "up") =>
       LET v == db.version
           n == db.version + 1
       IN  /\ disk'.new_version # disk.new_version =>
                \/ disk.checkpoint = disk'.checkpoint /\ disk.logfile = disk'.logfile
                   /\ disk.version = disk'.version /\ db.log = db'.log
                   /\ disk'.new_version \in {<<>>, FormatU64(n)}
                \/ /\ disk'.new_version = Absent
                   /\ disk.version = Absent
                   /\ disk'.version = FormatU64(n)
                   /\ disk.logfile[v] = Absent /\ disk.checkpoint[v] = Absent
           /\ disk'.checkpoint # disk.checkpoint =>
                \/ /\ disk'.checkpoint = [disk.checkpoint EXCEPT ![n] = disk'.checkpoint[n]]
                   /\ disk.new_version = FormatU64(n)
                   /\ disk.logfile = disk'.logfile
                   /\ db.log.ver = v
                \/ /\ disk'.checkpoint = [disk.checkpoint EXCEPT ![v] = Absent]
                   /\ disk.logfile[v] = Absent
                   /\ db.log.ver = n
           /\ disk'.logfile # disk.logfile =>
                \/ /\ disk'.logfile = [disk.logfile EXCEPT ![n] = <<>>]
                   /\ CheckpointWritten(n)
                   /\ disk.new_version = FormatU64(n)
                   /\ db.log.ver = v
                \/ /\ disk'.logfile = [disk.logfile EXCEPT ![v] = Absent]
                   /\ db.log.ver = n
                   /\ disk.new_version = FormatU64(n)
           /\ db'.log # db.log =>
                /\ db'.log.ver = n
                /\ disk.logfile[n] = <<>>
                /\ CheckpointWritten(n)
                /\ disk' = disk
           /\ disk'.version # disk.version =>
                /\ db.log.ver = n
                /\ disk.logfile[v] = Absent /\ disk.checkpoint[v] = Absent
           /\ db'.version # db.version =>
                /\ db'.version = n
                /\ disk' = disk
                /\ disk.version = FormatU64(n) /\ disk.new_version = Absent
                /\ db.log.ver = n]_vars

\* C19's case: a commit has gone through all its steps and returned Ok.
CommitOrderWitness ==
  /\ last = CommitCall("ok")
  /\ db.version = 1
  /\ disk.version = FormatU64(1)

\* C20: the commit-in-progress flag of an open engine is false whenever no
\* commit call is executing, whatever the commits before returned.
FlagClearAtRest ==
  (db.open /\ AtRest) => ~db.commit_in_progress

\* try_load_from_existing run from start to end on the directory d: kind
\* is "ok", "err" or "panic", with the version and the record set of the
\* engine it returns.
Recover(d) ==
  LET text == IF d.new_version # Absent THEN d.new_version ELSE d.version
      v == IF text = Absent THEN -1 ELSE ParseU64(text)
      none == [kind |-> "err", version |-> 0, records |-> EmptyMap]
  IN  IF text = Absent THEN none
      ELSE IF v = -1 THEN [none EXCEPT !.kind = "panic"]
      ELSE IF d.checkpoint[v] = Absent THEN none
      ELSE LET r == read_records_from_file(d.checkpoint[v])
           IN  IF r.kind # "ok" THEN [none EXCEPT !.kind = r.kind]
               ELSE IF d.logfile[v] = Absent THEN none
               ELSE LET ops == read_until_empty(d.logfile[v])
                    IN  IF ops.panic THEN [none EXCEPT !.kind = "panic"]
                        ELSE [kind |-> "ok", version |-> v,
                              records |-> ApplyOps(r.records, ops.ops)]

\* C21: when open has returned an engine on a store that was open before,
\* an open of the directory as it now is (a crash and an open with nothing
\* in between) returns an engine too, with the same version and the same
\* record set.
RecoveryRepeatable ==
  Reopened =>
    /\ Recover(disk).kind = "ok"
    /\ Recover(disk).version = db.version
    /\ Recover(disk).records = db.records

\* C22: on a store on which commit was never called, every open that ends,
\* the first one and those that follow crashes inside it, returns an engine
\* at version 0 with no records.
CreationCrashSafe ==
  (last.op = "open" /\ ~sess.committed) =>
    /\ last.result = "ok"
    /\ db.version = 0
    /\ db.records = EmptyMap

(***************************************************************************)
(* The cursor log of log.rs's test: append and replay.                     *)
(***************************************************************************)
LogAppend(op) ==
  /\ Len(appended) < MaxLogOps
  /\ damage = "none"
  /\ stream' = append(stream, op)
  /\ appended' = Append(appended, op)
  /\ UNCHANGED <<replayed, damage, ckpt>>
  /\ UNCHANGED dbVars

\* log.read_until_empty(): its only return is Ok(log_operations); a panic
\* inside it leaves no result.
LogReplay ==
  /\ replayed.of # appended \/ ~replayed.done \/ replayed.damage # damage
  /\ LET r == read_until_empty(stream)
     IN  replayed' = [done |-> TRUE, panic |-> r.panic, ops |-> r.ops, of |-> appended,
                      again |-> replayed.done, before |-> replayed.ops,
                      result |-> IF r.panic THEN "panic" ELSE "ok",
                      damage |-> damage]
  /\ UNCHANGED <<stream, appended, damage, ckpt>>
  /\ UNCHANGED dbVars

NextLog == (\E op \in LogOps : LogAppend(op)) \/ LogReplay

SpecLog == Init /\ [][NextLog]_vars

(***************************************************************************)
(* The cursor log with a damaged end: an append cut short, or an entry     *)
(* whose tag byte is no operation.                                         *)
(***************************************************************************)
\* Tag bytes that are neither 'p' nor 'd' (NUL, 'q').
BadTags == {0, 113}

\* write_all of Log::append cut short after n bytes of the entry of op.
LogTear(op, n) ==
  /\ damage = "none"
  /\ stream' = stream \o SubSeq(EncodeOp(op), 1, n)
  /\ damage' = "torn"
  /\ UNCHANGED <<appended, replayed, ckpt>>
  /\ UNCHANGED dbVars

\* An entry laid out as Log::append lays one out, with tag byte c and the
\* key bytes after it.
LogBadTag(c, bytes) ==
  /\ damage = "none"
  /\ stream' = stream \o write_encoded_char_to_buffer(c)
                     \o write_encoded_bytes_to_buffer(bytes)
  /\ damage' = "badtag"
  /\ UNCHANGED <<appended, replayed, ckpt>>
  /\ UNCHANGED dbVars

NextReplay ==
  \/ \E op \in LogOps : LogAppend(op)
  \/ \E op \in LogOps : \E n \in 0..(Len(EncodeOp(op)) - 1) : LogTear(op, n)
  \/ \E c \in BadTags : \E bytes \in LogKeys : LogBadTag(c, bytes)
  \/ LogReplay

SpecReplay == Init /\ [][NextReplay]_vars

\* C11: replay of a log that holds an entry whose tag byte is neither 'p'
\* nor 'd' returns an error, not the list of the operations before it.
InvalidTagIsError ==
  (replayed.done /\ replayed.damage = "badtag") => replayed.result = "err"

\* C12: replay of a log that ends with the first bytes of an entry whose
\* append was cut short returns Ok with exactly the complete entries, in
\* order.
TornTailIsEndOfLog ==
  (replayed.done /\ replayed.damage = "torn") =>
    /\ replayed.result = "ok"
    /\ replayed.ops = replayed.of

(***************************************************************************)
(* A checkpoint written from a record set and read back.                   *)
(***************************************************************************)
\* Keys and values of the record set: the empty one, one byte, two bytes
\* the first of which is zero.
CkKeys == {<<>>, <<97>>, <<0, 98>>}
CkValues == {<<>>, <<120, 0>>}

\* records.insert(key, value) on the record set to be written.
CkInsert(k, v) ==
  /\ ckpt.stage = "build"
  /\ k \notin DOMAIN ckpt.records
  /\ ckpt' = [ckpt EXCEPT !.records = Insert(@, k, v)]
  /\ UNCHANGED <<stream, appended, replayed, damage>>
  /\ UNCHANGED dbVars

\* write_records_to_file on a file just created, the HashMap visited in
\* order o.
CkWrite(o) ==
  /\ ckpt.stage = "build"
  /\ ckpt' = [ckpt EXCEPT !.stage = "written", !.file = EncodeRecords(ckpt.records, o)]
  /\ UNCHANGED <<stream, appended, replayed, damage>>
  /\ UNCHANGED dbVars

\* read_records_from_file on that file, opened anew.
CkRead ==
  /\ ckpt.stage = "written"
  /\ ckpt' = [ckpt EXCEPT !.stage = "read", !.loaded = read_records_from_file(ckpt.file)]
  /\ UNCHANGED <<stream, appended, replayed, damage>>
  /\ UNCHANGED dbVars

NextCheckpoint ==
  \/ \E k \in CkKeys : \E v \in CkValues : CkInsert(k, v)
  \/ \E o \in Orders(DOMAIN ckpt.records) : CkWrite(o)
  \/ CkRead

SpecCheckpoint == Init /\ [][NextCheckpoint]_vars

\* C15: reading back the checkpoint file written from a record set returns
\* Ok with a map equal to that record set, whatever the order in which the
\* entries were written.
CheckpointRoundTrip ==
  ckpt.stage = "read" =>
    /\ ckpt.loaded.kind = "ok"
    /\ ckpt.loaded.records = ckpt.records

\* C15's case: a record set of three entries, one with the empty key and
\* one with the empty value, written with the empty key not first, and read
\* back.
CheckpointRoundTripWitness ==
  /\ ckpt.stage = "read"
  /\ DOMAIN ckpt.records = CkKeys
  /\ \E k \in CkKeys : ckpt.records[k] = <<>>
  /\ \E k \in CkKeys : ckpt.records[k] # <<>>
  /\ SubSeq(ckpt.file, 1, U64_BYTES_LEN) # encode_be_u64(0)

\* C10: replay of a log to which operations were appended, starting from the
\* empty log, returns exactly those operations in the order of the appends;
\* after a later append, a new replay returns what the earlier replay
\* returned followed by the operations appended since.
LogRoundTrip ==
  replayed.done =>
    /\ ~replayed.panic
    /\ replayed.ops = replayed.of
    /\ replayed.again =>
         /\ Len(replayed.before) <= Len(replayed.ops)
         /\ SubSeq(replayed.ops, 1, Len(replayed.before)) = replayed.before

\* C10's case: a replay of two appended operations, a Put and a Delete,
\* made after an earlier replay that returned fewer operations.
LogRoundTripWitness ==
  /\ replayed.done
  /\ replayed.again
  /\ Len(replayed.of) = 2
  /\ Len(replayed.before) = 1
  /\ replayed.of[1].tag = "Put"
  /\ replayed.of[2].tag = "Delete"

====
